---- MODULE Spec2Model ----
(***************************************************************************)
(* HistoricalSpeciesAnalyzer (historical_species_analysis.py): the batch   *)
(* pipeline run_analysis = load_data, analyze_species_timeline,            *)
(* identify_missing_species, analyze_survey_coverage, generate_pdf_report, *)
(* generate_interactive_map, generate_missing_species_csv,                 *)
(* generate_all_species_csv.                                               *)
(*                                                                         *)
(* Conventions.  A nullable cell (pandas NaN / NaT / None) is a tuple of   *)
(* length at most one: NA = <<>>, a present value v is <<v>>.  A           *)
(* scientific name is a positive integer standing for the name's rank in   *)
(* lexicographic order (groupby sorts its keys).  A coordinate is an       *)
(* integer number of 1e-7 degrees, so that round(x, 6) is a real           *)
(* operation.  A raw Year cell is NA, <<"num", y>> (the number y),         *)
(* <<"num", y, "half">> (the number y + 0.5) or <<"text">> (a cell         *)
(* pd.to_numeric cannot read); a raw Event Date cell is NA,                *)
(* <<"date", y, m, d, h>> or <<"text">> (a cell pd.to_datetime coerces to   *)
(* NaT).  The Year column of the loaded frame is a float column: a value   *)
(* is an integer number of half years, so that int(x) is a real operation. *)
(***************************************************************************)
EXTENDS Integers, Sequences, FiniteSets, TLC

VARIABLES
    file,              \* the input at data_path: exists, columns, rows
    env,               \* the environment of the run: faults, newyear
    pc,                \* the next step of run_analysis
    data,              \* self.data
    species_timeline,  \* self.species_timeline
    missing_species,   \* self.missing_species
    survey_coverage,   \* self.survey_coverage
    pdf,               \* Historical_Species_Analysis_Report.pdf
    map_file,          \* species_survey_map.html
    csv_file,          \* missing_species_by_years.csv
    all_species_csv,   \* all_species_complete_data.csv
    log,               \* what the run printed, one entry per step
    result             \* what run_analysis returned

vars == <<file, env, pc, data, species_timeline, missing_species,
          survey_coverage, pdf, map_file, csv_file, all_species_csv, log,
          result>>

(***************************************************************************)
(* Bounds of the model.                                                    *)
(***************************************************************************)
MaxRows == 3        \* rows of an input of the aggregation family
MaxDetailRows == 2  \* rows of an input of the other families

(***************************************************************************)
(* Program constants.                                                      *)
(***************************************************************************)
cutoff_year == 2000
recent_years == 5
historical_cutoff == 2000
StartYear == 2025   \* datetime.now().year when the run starts

\* Year is a float column (line 67): its values are held in half years
YearUnit == 2
\* a whole number of years as a value of the Year column
float(y) == y * YearUnit
\* int(x) of a value of the Year column: the fraction dropped
int(x) == x \div YearUnit

(***************************************************************************)
(* Nullable cells.                                                         *)
(***************************************************************************)
NA == << >>
isna(x) == x = NA
notna(x) == x # NA
Val(x) == x[1]

(***************************************************************************)
(* Sequence helpers.                                                       *)
(***************************************************************************)
RECURSIVE Filter(_, _)
\* the boolean-mask selection df[mask]: order kept
Filter(s, keep) ==
    IF s = << >> THEN << >>
    ELSE IF keep[1] THEN <<s[1]>> \o Filter(Tail(s), Tail(keep))
         ELSE Filter(Tail(s), Tail(keep))

Mask(s, P(_)) == [i \in 1..Len(s) |-> P(s[i])]
Select(s, P(_)) == Filter(s, Mask(s, P))

Range(s) == {s[i] : i \in 1..Len(s)}
Min(S) == CHOOSE m \in S : \A x \in S : m <= x
Max(S) == CHOOSE m \in S : \A x \in S : m >= x

RECURSIVE SetToSortedSeq(_)
\* the elements of a finite set of integers, ascending
SetToSortedSeq(S) ==
    IF S = {} THEN << >>
    ELSE LET m == Min(S) IN <<m>> \o SetToSortedSeq(S \ {m})

(***************************************************************************)
(* The input file.                                                         *)
(***************************************************************************)
OptionalColumns ==
    {"Event Date", "Year", "Decimal Latitude", "Decimal Longitude",
     "Reserve Name"}
AllColumns == OptionalColumns \cup {"Scientific Name"}

Names == {1, 2}                        \* SpA, SpB
LatValues == {0 - 331234567, 0 - 330000004}   \* -33.1234567, -33.0000004
LonValues == {1511234561, 1512000006}         \* 151.1234561, 151.2000006
Date95 == <<"date", 1995, 3, 14, 9>>
Date23 == <<"date", 2023, 11, 2, 0>>
Reserves == {"Reserve1", "Reserve2"}

\* the years of the records: either side of the cutoff year, of the recency
\* threshold and of the current year
Years == {1990, 1995, 2000, 2020, 2023, 2030}

Cells(S) == {NA} \cup {<<v>> : v \in S}

RawRow(n, y, d, la, lo, r) ==
    [name |-> n, year |-> y, date |-> d, lat |-> la, lon |-> lo,
     reserve |-> r]

\* aggregation family: the names and the years of named records vary
AggregationRows ==
    {RawRow(<<n>>, <<"num", y>>, NA, NA, NA, NA) :
        n \in Names, y \in {1990, 1995, 2000, 2023}}

\* recency family: names, with the null name, and late years vary
RecencyRows ==
    {RawRow(n, <<"num", y>>, NA, NA, NA, NA) :
        n \in Cells(Names), y \in {1995, 2000, 2020, 2030}}

\* the coordinates of a record: none, one alone, or both
Coordinates ==
    {<<NA, NA>>,
     <<<<Min(LatValues)>>, NA>>,
     <<NA, <<Min(LonValues)>>>>,
     <<<<Min(LatValues)>>, <<Max(LonValues)>>>>,
     <<<<Max(LatValues)>>, <<Min(LonValues)>>>>}

\* geographic family: the coordinates and the years of one species vary
GeoRows ==
    {RawRow(<<Min(Names)>>, <<"num", y>>, NA, g[1], g[2], NA) :
        y \in {1995, 2023}, g \in Coordinates}

\* coverage family: the name may be null, one coordinate may be alone
CoverageRows ==
    {RawRow(n, <<"num", y>>, NA, g[1], g[2], NA) :
        n \in Cells({Min(Names)}), y \in {1995, 2023},
        g \in {c \in Coordinates : c[1] = <<Min(LatValues)>> \/ c[1] = NA} \
                 {<<NA, NA>>}}

\* range family: the coordinates of the old records of two species vary
RangeRows ==
    {RawRow(<<n>>, <<"num", 1995>>, NA, g[1], g[2], NA) :
        n \in Names, g \in Coordinates \ {<<NA, <<Min(LonValues)>>>>}}

\* location family: year, date and reserve of one species vary
LocationRows ==
    {RawRow(<<Min(Names)>>, <<"num", yd[1]>>, yd[2], <<Min(LatValues)>>,
            <<Min(LonValues)>>, r) :
        yd \in {<<1995, NA>>, <<1995, Date95>>, <<2023, NA>>, <<2023, Date23>>},
        r \in Cells(Reserves)}

\* the name, Year cell and Event Date cell of a row of the cleaning family
CleaningCells ==
    {<<<<Min(Names)>>, NA, NA>>,
     <<<<Min(Names)>>, NA, Date23>>,
     <<<<Min(Names)>>, NA, <<"text">>>>,
     <<<<Min(Names)>>, <<"num", 1995>>, NA>>,
     <<<<Min(Names)>>, <<"num", 1995>>, Date23>>,
     <<<<Min(Names)>>, <<"text">>, Date23>>,
     <<NA, <<"num", 1995>>, NA>>}

\* cleaning family: Year and Event Date cells, and their columns, vary
CleaningRows(cols) ==
    {RawRow(c[1], c[2], c[3], <<Min(LatValues)>>, <<Min(LonValues)>>, NA) :
        c \in {x \in CleaningCells :
                  /\ "Year" \notin cols => isna(x[2])
                  /\ "Event Date" \notin cols => isna(x[3])}}

\* schema family: any set of optional columns, every cell of a present
\* column filled
SchemaRows(cols) ==
    {RawRow(<<Min(Names)>>,
            IF "Year" \in cols THEN <<"num", y>> ELSE NA,
            IF "Event Date" \in cols THEN Date95 ELSE NA,
            IF "Decimal Latitude" \in cols THEN <<Min(LatValues)>> ELSE NA,
            IF "Decimal Longitude" \in cols THEN <<Min(LonValues)>> ELSE NA,
            IF "Reserve Name" \in cols THEN <<"Reserve1">> ELSE NA) :
        y \in {1995, 2023}}

\* fraction family: Year cells that are whole or not, beside the cutoff year
FractionRows ==
    {RawRow(<<n>>, y, NA, <<Min(LatValues)>>, <<Min(LonValues)>>,
            <<"Reserve1">>) :
        n \in Names,
        y \in {<<"num", 1995>>, <<"num", 1995, "half">>,
               <<"num", 1999, "half">>, <<"num", 2000, "half">>}}

\* fault family: plain rows of one species
PlainRows ==
    {RawRow(<<Min(Names)>>, <<"num", y>>, NA, <<Min(LatValues)>>,
            <<Min(LonValues)>>, NA) :
        y \in {1995, 2023}}

Stages ==
    <<"load_data", "analyze_species_timeline", "identify_missing_species",
      "analyze_survey_coverage", "generate_pdf_report",
      "create_timeline_analysis_page", "create_missing_species_page",
      "create_spatial_coverage_page", "generate_interactive_map",
      "generate_missing_species_csv", "generate_all_species_csv">>

StageIndex(s) == CHOOSE i \in 1..Len(Stages) : Stages[i] = s

\* the steps whose failure is decided by the environment
FaultPoints ==
    {"generate_pdf_report", "create_timeline_analysis_page",
     "create_missing_species_page", "create_spatial_coverage_page",
     "generate_interactive_map", "generate_missing_species_csv",
     "generate_all_species_csv"}

\* the steps whose reading of datetime.now().year reaches their result
ClockReaders ==
    {"analyze_species_timeline", "generate_missing_species_csv",
     "generate_all_species_csv"}

Quiet == [faults |-> {}, newyear |-> "never"]

CsvFile(cols, rs) == [exists |-> TRUE, columns |-> cols, rows |-> rs]
NoFile == [exists |-> FALSE, columns |-> {}, rows |-> << >>]

\* current_year with the clock a year further at every later reader
current_year_advancing(s) == StartYear + StageIndex(s) \div 4

\* datetime.now().year as read by step s
current_year(s) ==
    IF env.newyear # "never" /\ StageIndex(s) >= StageIndex(env.newyear)
    THEN StartYear + 1 ELSE StartYear

(***************************************************************************)
(* load_data and preprocess_dates.                                         *)
(***************************************************************************)
\* pd.read_csv: the frame of the file, rows labelled by their source index
read_csv(f) ==
    [columns |-> f.columns \cup {"Scientific Name"},
     rows |-> [i \in 1..Len(f.rows) |->
                  [idx |-> i, name |-> f.rows[i].name, year |-> f.rows[i].year,
                   date |-> f.rows[i].date, lat |-> f.rows[i].lat,
                   lon |-> f.rows[i].lon, reserve |-> f.rows[i].reserve]]]

\* pd.to_datetime(errors='coerce') of one cell: a Timestamp <<y, m, d, h>>
to_datetime(c) ==
    IF notna(c) /\ c[1] = "date" THEN <<<<c[2], c[3], c[4], c[5]>>>> ELSE NA

\* Series.dt.year of one parsed cell, as a Year cell
dt_year(t) == IF isna(t) THEN NA ELSE <<"num", Val(t)[1]>>

\* pd.to_numeric(errors='coerce') of one Year cell
to_numeric(c) ==
    IF notna(c) /\ c[1] = "num"
    THEN <<float(c[2]) + (IF Len(c) = 3 THEN 1 ELSE 0)>>
    ELSE NA

\* fill_years with every year of a dated row taken from its Event Date
fill_years_overwriting(df) ==
    IF "Event Date" \in df.columns
    THEN [columns |-> df.columns \cup {"Year"},
          rows |-> [i \in 1..Len(df.rows) |->
              LET r == df.rows[i]
                  ts == to_datetime(r.date)
              IN  [r EXCEPT
                     !.date = ts,
                     !.year = IF "Year" \notin df.columns THEN dt_year(ts)
                              ELSE IF notna(ts) THEN dt_year(ts)
                              ELSE r.year]]]
    ELSE df

\* preprocess_dates, lines 57-65: parse Event Date, fill the missing years
fill_years(df) ==
    IF "Event Date" \in df.columns
    THEN [columns |-> df.columns \cup {"Year"},
          rows |-> [i \in 1..Len(df.rows) |->
              LET r == df.rows[i]
                  ts == to_datetime(r.date)
              IN  [r EXCEPT
                     !.date = ts,
                     !.year = IF "Year" \notin df.columns THEN dt_year(ts)
                              ELSE IF isna(r.year) THEN dt_year(ts)
                              ELSE r.year]]]
    ELSE df

\* dropna(subset=['Year'])
dropna_year(rows) == Select(rows, LAMBDA r : notna(r.year))

\* preprocess_dates, lines 67-68: coerce Year and drop the rows without one
clean_years(df) ==
    [columns |-> df.columns,
     rows |-> dropna_year([i \in 1..Len(df.rows) |->
                 [df.rows[i] EXCEPT !.year = to_numeric(df.rows[i].year)]])]

\* self.data['Year'] of line 67 raises KeyError
preprocess_raises(df) == "Year" \notin fill_years(df).columns

preprocess_dates(df) ==
    IF preprocess_raises(df) THEN fill_years(df) ELSE clean_years(fill_years(df))

\* the columns the summary prints of lines 51-53 read
load_summary_columns ==
    {"Year", "Scientific Name", "Decimal Latitude", "Decimal Longitude"}

\* load_data raises: FileNotFoundError (line 43) or KeyError (lines 67, 53)
load_raises(f) ==
    \/ ~f.exists
    \/ preprocess_raises(read_csv(f))
    \/ ~(load_summary_columns \subseteq preprocess_dates(read_csv(f)).columns)

\* Raise with the except clause reporting success
Raise_reporting_success(step) ==
    /\ pc' = "done"
    /\ result' = <<TRUE>>
    /\ log' = log \o <<step, "Error during analysis">>

\* the step of run_analysis that raised: the except clause of lines 698-702
Raise(step) ==
    /\ pc' = "done"
    /\ result' = <<FALSE>>
    /\ log' = log \o <<step, "Error during analysis">>

LoadData ==
    /\ pc = "load_data"
    /\ data' = IF file.exists THEN preprocess_dates(read_csv(file)) ELSE NA
    /\ IF load_raises(file)
       THEN Raise("load_data")
       ELSE /\ pc' = "analyze_species_timeline"
            /\ log' = log \o <<"load_data">>
            /\ UNCHANGED result
    /\ UNCHANGED <<file, env, species_timeline, missing_species,
                   survey_coverage, pdf, map_file, csv_file, all_species_csv>>

(***************************************************************************)
(* analyze_species_timeline.                                               *)
(***************************************************************************)
\* the group keys of groupby('Scientific Name'): non-null, sorted
species_keys(rows) ==
    SetToSortedSeq({Val(r.name) : r \in {x \in Range(rows) : notna(x.name)}})

\* the records of one species: self.data[self.data['Scientific Name'] == name]
species_rows(rows, name) == Select(rows, LAMBDA r : r.name = <<name>>)

year_values(rows) == {Val(rows[i].year) : i \in 1..Len(rows)}

\* timeline_row with Missing_Years counted from the first record
timeline_row_since_first(rows, name, now) ==
    LET grp == species_rows(rows, name)
        first == Min(year_values(grp))
        last == Max(year_values(grp))
    IN  [Scientific_Name |-> name,
         First_Record |-> first,
         Last_Record |-> last,
         Total_Records |-> Len(grp),
         Time_Span |-> last - first,
         Recent_Records |-> last >= float(now - recent_years),
         Missing_Years |-> float(now) - first]

\* timeline_row with the columns of min and max exchanged
timeline_row_swapped(rows, name, now) ==
    LET grp == species_rows(rows, name)
        first == Max(year_values(grp))
        last == Min(year_values(grp))
    IN  [Scientific_Name |-> name,
         First_Record |-> first,
         Last_Record |-> last,
         Total_Records |-> Len(grp),
         Time_Span |-> last - first,
         Recent_Records |-> last >= float(now - recent_years),
         Missing_Years |-> float(now) - last]

\* lines 74-81: one row of species_years
timeline_row(rows, name, now) ==
    LET grp == species_rows(rows, name)
        first == Min(year_values(grp))
        last == Max(year_values(grp))
    IN  [Scientific_Name |-> name,
         First_Record |-> first,
         Last_Record |-> last,
         Total_Records |-> Len(grp),
         Time_Span |-> last - first,
         Recent_Records |-> last >= float(now - recent_years),
         Missing_Years |-> float(now) - last]

species_years(rows, now) ==
    LET keys == species_keys(rows)
    IN  [i \in 1..Len(keys) |-> timeline_row(rows, keys[i], now)]

AnalyzeSpeciesTimeline ==
    /\ pc = "analyze_species_timeline"
    /\ species_timeline' =
           <<species_years(data.rows, current_year("analyze_species_timeline"))>>
    /\ pc' = "identify_missing_species"
    /\ log' = log \o <<"analyze_species_timeline">>
    /\ UNCHANGED <<file, env, data, missing_species, survey_coverage, pdf,
                   map_file, csv_file, all_species_csv, result>>

(***************************************************************************)
(* identify_missing_species.                                               *)
(***************************************************************************)
RECURSIVE Insert(_, _, _)
\* index j placed after the indices of the sorted ix whose key is not greater
Insert(ix, j, keys) ==
    IF ix = << >> THEN <<j>>
    ELSE IF keys[ix[1]] <= keys[j] THEN <<ix[1]>> \o Insert(Tail(ix), j, keys)
         ELSE <<j>> \o ix

RECURSIVE argsort_upto(_, _)
argsort_upto(keys, n) ==
    IF n = 0 THEN << >> ELSE Insert(argsort_upto(keys, n - 1), n, keys)

\* ndarray.argsort, the insertion sort numpy runs on a short array: the
\* positions of keys in ascending order, equal keys in their order of arrival
argsort(keys) == argsort_upto(keys, Len(keys))

Reverse(s) == [i \in 1..Len(s) |-> s[Len(s) + 1 - i]]

\* nargsort with the direction of the sort ignored
nargsort_ascending(keys, ascending) == argsort(keys)

\* pandas' nargsort: the indexer of a sort by keys
nargsort(keys, ascending) ==
    LET idx == [i \in 1..Len(keys) |-> i]
        non_nans == IF ascending THEN keys ELSE Reverse(keys)
        non_nan_idx == IF ascending THEN idx ELSE Reverse(idx)
        order == argsort(non_nans)
        indexer == [i \in 1..Len(keys) |-> non_nan_idx[order[i]]]
    IN  IF ascending THEN indexer ELSE Reverse(indexer)

\* DataFrame.sort_values(by, ascending), keys the values of column by
sort_values(s, keys, ascending) ==
    LET indexer == nargsort(keys, ascending)
    IN  [i \in 1..Len(s) |-> s[indexer[i]]]

\* old_only with the cutoff year itself counted as missing
old_only_inclusive(timeline, cutoff) ==
    LET sel == Select(timeline, LAMBDA t : t.Last_Record <= float(cutoff))
    IN  sort_values(sel, [i \in 1..Len(sel) |-> sel[i].Last_Record], TRUE)

\* lines 96-97
old_only(timeline, cutoff) ==
    LET sel == Select(timeline, LAMBDA t : t.Last_Record < float(cutoff))
    IN  sort_values(sel, [i \in 1..Len(sel) |-> sel[i].Last_Record], TRUE)

IdentifyMissingSpecies ==
    /\ pc = "identify_missing_species"
    /\ missing_species' = <<old_only(Val(species_timeline), cutoff_year)>>
    /\ pc' = "analyze_survey_coverage"
    /\ log' = log \o <<"identify_missing_species">>
    /\ UNCHANGED <<file, env, data, species_timeline, survey_coverage, pdf,
                   map_file, csv_file, all_species_csv, result>>

(***************************************************************************)
(* analyze_survey_coverage.                                                *)
(***************************************************************************)
\* Series.count / Series.nunique of one column of a group: nulls left out
count(rows, col(_)) == Len(Select(rows, LAMBDA r : notna(col(r))))
nunique(rows, col(_)) ==
    Cardinality({col(r) : r \in {x \in Range(rows) : notna(col(x))}})

\* yearly_records with Total_Records the size of the group
yearly_records_size(rows) ==
    LET keys == SetToSortedSeq(year_values(rows))
    IN  [i \in 1..Len(keys) |->
            LET grp == Select(rows, LAMBDA r : r.year = <<keys[i]>>)
            IN  [Year |-> keys[i],
                 Total_Records |-> Len(grp),
                 Unique_Species |-> nunique(grp, LAMBDA r : r.name),
                 GPS_Records_Lat |-> count(grp, LAMBDA r : r.lat),
                 GPS_Records_Lon |-> count(grp, LAMBDA r : r.lon)]]

\* lines 114-120: one row per year, years ascending
yearly_records(rows) ==
    LET keys == SetToSortedSeq(year_values(rows))
    IN  [i \in 1..Len(keys) |->
            LET grp == Select(rows, LAMBDA r : r.year = <<keys[i]>>)
            IN  [Year |-> keys[i],
                 Total_Records |-> count(grp, LAMBDA r : r.name),
                 Unique_Species |-> nunique(grp, LAMBDA r : r.name),
                 GPS_Records_Lat |-> count(grp, LAMBDA r : r.lat),
                 GPS_Records_Lon |-> count(grp, LAMBDA r : r.lon)]]

\* line 122: the four columns, rows with any null dropped
gps_data(rows) ==
    Select(rows, LAMBDA r : notna(r.lat) /\ notna(r.lon) /\ notna(r.year)
                            /\ notna(r.name))

\* historical_gps with the cutoff year itself counted as historical
historical_gps_inclusive(gps, cutoff) ==
    Select(gps, LAMBDA r : Val(r.year) <= float(cutoff))

\* lines 126-127, 283-284
recent_gps(gps, cutoff) == Select(gps, LAMBDA r : Val(r.year) >= float(cutoff))
historical_gps(gps, cutoff) == Select(gps, LAMBDA r : Val(r.year) < float(cutoff))

AnalyzeSurveyCoverage ==
    /\ pc = "analyze_survey_coverage"
    /\ survey_coverage' =
           <<[yearly_records |-> yearly_records(data.rows),
              gps_data |-> gps_data(data.rows),
              recent_gps |-> recent_gps(gps_data(data.rows), historical_cutoff),
              historical_gps |->
                  historical_gps(gps_data(data.rows), historical_cutoff)]>>
    /\ pc' = "generate_pdf_report"
    /\ log' = log \o <<"analyze_survey_coverage">>
    /\ UNCHANGED <<file, env, data, species_timeline, missing_species, pdf,
                   map_file, csv_file, all_species_csv, result>>

(***************************************************************************)
(* generate_pdf_report and its three page builders.                        *)
(***************************************************************************)
Faulty(step) == step \in env.faults

\* line 646: PdfPages(output_file) opened
GeneratePdfReport ==
    /\ pc = "generate_pdf_report"
    /\ IF Faulty("generate_pdf_report")
       THEN Raise("generate_pdf_report") /\ UNCHANGED pdf
       ELSE /\ pdf' = <<<< >>>>
            /\ pc' = "create_timeline_analysis_page"
            /\ log' = log \o <<"generate_pdf_report">>
            /\ UNCHANGED result
    /\ UNCHANGED <<file, env, data, species_timeline, missing_species,
                   survey_coverage, map_file, csv_file, all_species_csv>>

Page(kind, years, cumulative) ==
    [page |-> kind, years_sorted |-> years, cumulative_species |-> cumulative]

\* line 153: the species recorded in year y, nulls dropped
species_of_year(rows, y) ==
    {Val(r.name) :
        r \in {x \in Range(rows) : x.year = <<float(y)>> /\ notna(x.name)}}

\* lines 150-155: the running count of species seen, per year ascending
cumulative_species(rows, years) ==
    [i \in 1..Len(years) |->
        Cardinality(UNION {species_of_year(rows, years[j]) : j \in 1..i})]

\* lines 146-150: sorted(yearly_data['Year'].astype(int))
years_sorted(coverage) ==
    LET years == [i \in 1..Len(coverage.yearly_records) |->
                     int(coverage.yearly_records[i].Year)]
    IN  sort_values(years, years, TRUE)

\* CreateTimelineAnalysisPage without the try block of lines 647-651
CreateTimelineAnalysisPage_uncaught ==
    /\ pc = "create_timeline_analysis_page"
    /\ IF Faulty("create_timeline_analysis_page")
       THEN Raise("create_timeline_analysis_page") /\ UNCHANGED pdf
       ELSE /\ pdf' = <<Append(Val(pdf),
                       Page("timeline", years_sorted(Val(survey_coverage)),
                            cumulative_species(data.rows,
                                years_sorted(Val(survey_coverage)))))>>
            /\ log' = log \o <<"create_timeline_analysis_page",
                               "Timeline analysis page">>
            /\ pc' = "create_missing_species_page"
            /\ UNCHANGED result
    /\ UNCHANGED <<file, env, data, species_timeline, missing_species,
                   survey_coverage, map_file, csv_file, all_species_csv>>

CreateTimelineAnalysisPage ==
    /\ pc = "create_timeline_analysis_page"
    /\ IF Faulty("create_timeline_analysis_page")
       THEN /\ log' = log \o <<"create_timeline_analysis_page",
                               "Skipped timeline page">>
            /\ UNCHANGED pdf
       ELSE /\ pdf' = <<Append(Val(pdf),
                       Page("timeline", years_sorted(Val(survey_coverage)),
                            cumulative_species(data.rows,
                                years_sorted(Val(survey_coverage)))))>>
            /\ log' = log \o <<"create_timeline_analysis_page",
                               "Timeline analysis page">>
    /\ pc' = "create_missing_species_page"
    /\ UNCHANGED <<file, env, data, species_timeline, missing_species,
                   survey_coverage, map_file, csv_file, all_species_csv,
                   result>>

\* missing_species_page without the placeholder branch
missing_species_page_always_charts(missing) ==
    Page("Distribution of Last Record Years (Missing Species)", << >>, << >>)

\* lines 192-224: the two histograms, or the placeholder
missing_species_page(missing) ==
    IF Len(missing) > 0
    THEN Page("Distribution of Last Record Years (Missing Species)",
              << >>, << >>)
    ELSE Page("No Missing Species Found", << >>, << >>)

CreateMissingSpeciesPage ==
    /\ pc = "create_missing_species_page"
    /\ IF Faulty("create_missing_species_page")
       THEN /\ log' = log \o <<"create_missing_species_page",
                               "Skipped missing species page">>
            /\ UNCHANGED pdf
       ELSE /\ pdf' = <<Append(Val(pdf),
                               missing_species_page(Val(missing_species)))>>
            /\ log' = log \o <<"create_missing_species_page",
                               "Missing species page">>
    /\ pc' = "create_spatial_coverage_page"
    /\ UNCHANGED <<file, env, data, species_timeline, missing_species,
                   survey_coverage, map_file, csv_file, all_species_csv,
                   result>>

\* lines 261-268: with no GPS record the bin edges and the image extent are
\* NaN, and the axes refuse NaN limits
spatial_page_raises(coverage) == Len(coverage.gps_data) = 0

CreateSpatialCoveragePage ==
    /\ pc = "create_spatial_coverage_page"
    /\ IF \/ Faulty("create_spatial_coverage_page")
          \/ spatial_page_raises(Val(survey_coverage))
       THEN /\ log' = log \o <<"create_spatial_coverage_page",
                               "Skipped spatial coverage page">>
            /\ UNCHANGED pdf
       ELSE /\ pdf' = <<Append(Val(pdf), Page("spatial", << >>, << >>))>>
            /\ log' = log \o <<"create_spatial_coverage_page",
                               "Spatial coverage page">>
    /\ pc' = "generate_interactive_map"
    /\ UNCHANGED <<file, env, data, species_timeline, missing_species,
                   survey_coverage, map_file, csv_file, all_species_csv,
                   result>>

(***************************************************************************)
(* generate_interactive_map.                                               *)
(***************************************************************************)
\* lines 368-383: one marker per record
markers(gps, type) ==
    [i \in 1..Len(gps) |->
        [species_name |-> Val(gps[i].name), year |-> int(Val(gps[i].year)),
         lat |-> Val(gps[i].lat), lon |-> Val(gps[i].lon), type |-> type]]

\* lines 281-398: the summary panel and the two marker layers
html_content(coverage) ==
    LET gps == coverage.gps_data
        recent == recent_gps(gps, historical_cutoff)
        historical == historical_gps(gps, historical_cutoff)
    IN  [total_points |-> Len(gps),
         historical_points |-> Len(historical),
         recent_points |-> Len(recent),
         unique_species |-> nunique(gps, LAMBDA r : r.name),
         historicalLayer |-> markers(historical, "Historical"),
         recentLayer |-> markers(recent, "Recent")]

\* GenerateInteractiveMap with its failure reported and the run going on
GenerateInteractiveMap_continuing ==
    /\ pc = "generate_interactive_map"
    /\ IF Faulty("generate_interactive_map")
       THEN /\ log' = log \o <<"generate_interactive_map",
                               "Error during analysis">>
            /\ UNCHANGED map_file
       ELSE /\ map_file' = <<html_content(Val(survey_coverage))>>
            /\ log' = log \o <<"generate_interactive_map">>
    /\ pc' = "generate_missing_species_csv"
    /\ UNCHANGED <<file, env, data, species_timeline, missing_species,
                   survey_coverage, pdf, csv_file, all_species_csv, result>>

GenerateInteractiveMap ==
    /\ pc = "generate_interactive_map"
    /\ IF Faulty("generate_interactive_map")
       THEN Raise("generate_interactive_map") /\ UNCHANGED map_file
       ELSE /\ map_file' = <<html_content(Val(survey_coverage))>>
            /\ pc' = "generate_missing_species_csv"
            /\ log' = log \o <<"generate_interactive_map">>
            /\ UNCHANGED result
    /\ UNCHANGED <<file, env, data, species_timeline, missing_species,
                   survey_coverage, pdf, csv_file, all_species_csv>>

(***************************************************************************)
(* generate_missing_species_csv and generate_all_species_csv.              *)
(***************************************************************************)
\* round(x, 6) of a coordinate held in units of 1e-7: the nearest multiple
\* of ten (the inputs avoid the exact halves)
Round6(x) == ((x + 5) \div 10) * 10

\* str(Timestamp)[:10]: the date without the time of day
date_str(ts) == <<ts[1], ts[2], ts[3]>>

\* dropna(subset=['Decimal Latitude', 'Decimal Longitude'])
dropna_gps(rows) == Select(rows, LAMBDA r : notna(r.lat) /\ notna(r.lon))

\* has_range with a single GPS record taken for a range
has_range_single(gps_records) == Len(gps_records) > 0

\* lines 468, 579: a range needs more than one GPS record
has_range(gps_records) == Len(gps_records) > 1

\* the values of one column of a frame, as a set
column(rows, col(_)) == {col(rows[i]) : i \in 1..Len(rows)}

\* Series.dropna().unique(): the distinct values in order of first appearance
unique(rows, col(_)) ==
    LET present == Select(rows, LAMBDA r : notna(col(r)))
        firsts == Select([i \in 1..Len(present) |->
                             [i |-> i, v |-> Val(col(present[i]))]],
                         LAMBDA e : \A j \in 1..(e.i - 1) :
                                        Val(col(present[j])) # e.v)
    IN  [i \in 1..Len(firsts) |-> firsts[i].v]

\* lines 418-504: the report row of one species
missing_report_row(df, species, now) ==
    LET species_name == species.Scientific_Name
        last_year == int(species.Last_Record)
        first_year == int(species.First_Record)
        species_data == species_rows(df.rows, species_name)
        gps_records == dropna_gps(species_data)
        last_location_data ==
            Select(species_data, LAMBDA r : r.year = <<float(last_year)>>)
        first_location_data ==
            Select(species_data, LAMBDA r : r.year = <<float(first_year)>>)
        has_last == Len(last_location_data) > 0
        has_first == Len(first_location_data) > 0
        last_record == last_location_data[1]
        first_record == first_location_data[1]
        ranged == has_range(gps_records)
        min_lat == Round6(Min(column(gps_records, LAMBDA r : Val(r.lat))))
        max_lat == Round6(Max(column(gps_records, LAMBDA r : Val(r.lat))))
        min_lon == Round6(Min(column(gps_records, LAMBDA r : Val(r.lon))))
        max_lon == Round6(Max(column(gps_records, LAMBDA r : Val(r.lon))))
        unique_reserves ==
            IF "Reserve Name" \in df.columns
            THEN unique(species_data, LAMBDA r : r.reserve) ELSE << >>
    IN  [Scientific_Name |-> species_name,
         Years_Missing |-> now - last_year,
         Last_Record_Year |-> last_year,
         Last_Record_Date |->
             IF has_last /\ "Event Date" \in df.columns
                /\ notna(last_record.date)
             THEN <<date_str(Val(last_record.date))>> ELSE NA,
         Last_Known_Latitude |->
             IF has_last /\ "Decimal Latitude" \in df.columns
                /\ notna(last_record.lat)
             THEN <<Round6(Val(last_record.lat))>> ELSE NA,
         Last_Known_Longitude |->
             IF has_last /\ "Decimal Longitude" \in df.columns
                /\ notna(last_record.lon)
             THEN <<Round6(Val(last_record.lon))>> ELSE NA,
         Last_Known_Reserve |->
             IF has_last /\ "Reserve Name" \in df.columns
                /\ notna(last_record.reserve)
             THEN last_record.reserve ELSE NA,
         First_Record_Year |-> first_year,
         First_Record_Date |->
             IF has_first /\ "Event Date" \in df.columns
                /\ notna(first_record.date)
             THEN <<date_str(Val(first_record.date))>> ELSE NA,
         First_Known_Latitude |->
             IF has_first /\ "Decimal Latitude" \in df.columns
                /\ notna(first_record.lat)
             THEN <<Round6(Val(first_record.lat))>> ELSE NA,
         First_Known_Longitude |->
             IF has_first /\ "Decimal Longitude" \in df.columns
                /\ notna(first_record.lon)
             THEN <<Round6(Val(first_record.lon))>> ELSE NA,
         First_Known_Reserve |->
             IF has_first /\ "Reserve Name" \in df.columns
                /\ notna(first_record.reserve)
             THEN first_record.reserve ELSE NA,
         Record_Span_Years |-> last_year - first_year,
         Total_Records |-> species.Total_Records,
         GPS_Locations |-> Len(gps_records),
         All_Reserves_Found |->
             IF Len(unique_reserves) > 0 THEN <<unique_reserves>> ELSE NA,
         Geographic_Range_Lat |->
             IF ranged THEN <<Round6(max_lat - min_lat)>> ELSE NA,
         Geographic_Range_Lon |->
             IF ranged THEN <<Round6(max_lon - min_lon)>> ELSE NA,
         Min_Latitude |-> IF ranged THEN <<min_lat>> ELSE NA,
         Max_Latitude |-> IF ranged THEN <<max_lat>> ELSE NA,
         Min_Longitude |-> IF ranged THEN <<min_lon>> ELSE NA,
         Max_Longitude |-> IF ranged THEN <<max_lon>> ELSE NA]

\* missing_status with the cutoff year counted as missing
missing_status_inclusive(last_year) ==
    IF last_year <= cutoff_year THEN "Missing" ELSE "Recent"

\* lines 591-593: the status label of the full-species export
missing_status(last_year) ==
    IF last_year < cutoff_year THEN "Missing" ELSE "Recent"

\* lines 532-620: the report row of one species
all_species_report_row(df, species, now) ==
    LET species_name == species.Scientific_Name
        last_year == int(species.Last_Record)
        first_year == int(species.First_Record)
        species_data == species_rows(df.rows, species_name)
        gps_records == dropna_gps(species_data)
        last_location_data ==
            Select(species_data, LAMBDA r : r.year = <<float(last_year)>>)
        first_location_data ==
            Select(species_data, LAMBDA r : r.year = <<float(first_year)>>)
        has_last == Len(last_location_data) > 0
        has_first == Len(first_location_data) > 0
        last_record == last_location_data[1]
        first_record == first_location_data[1]
        ranged == has_range(gps_records)
        min_lat == Round6(Min(column(gps_records, LAMBDA r : Val(r.lat))))
        max_lat == Round6(Max(column(gps_records, LAMBDA r : Val(r.lat))))
        min_lon == Round6(Min(column(gps_records, LAMBDA r : Val(r.lon))))
        max_lon == Round6(Max(column(gps_records, LAMBDA r : Val(r.lon))))
        unique_reserves ==
            IF "Reserve Name" \in df.columns
            THEN unique(species_data, LAMBDA r : r.reserve) ELSE << >>
    IN  [Scientific_Name |-> species_name,
         Missing_Status |-> missing_status(last_year),
         Years_Missing |-> now - last_year,
         Last_Record_Year |-> last_year,
         Last_Record_Date |->
             IF has_last /\ "Event Date" \in df.columns
                /\ notna(last_record.date)
             THEN <<date_str(Val(last_record.date))>> ELSE NA,
         Last_Known_Latitude |->
             IF has_last /\ "Decimal Latitude" \in df.columns
                /\ notna(last_record.lat)
             THEN <<Round6(Val(last_record.lat))>> ELSE NA,
         Last_Known_Longitude |->
             IF has_last /\ "Decimal Longitude" \in df.columns
                /\ notna(last_record.lon)
             THEN <<Round6(Val(last_record.lon))>> ELSE NA,
         Last_Known_Reserve |->
             IF has_last /\ "Reserve Name" \in df.columns
                /\ notna(last_record.reserve)
             THEN last_record.reserve ELSE NA,
         First_Record_Year |-> first_year,
         First_Record_Date |->
             IF has_first /\ "Event Date" \in df.columns
                /\ notna(first_record.date)
             THEN <<date_str(Val(first_record.date))>> ELSE NA,
         First_Known_Latitude |->
             IF has_first /\ "Decimal Latitude" \in df.columns
                /\ notna(first_record.lat)
             THEN <<Round6(Val(first_record.lat))>> ELSE NA,
         First_Known_Longitude |->
             IF has_first /\ "Decimal Longitude" \in df.columns
                /\ notna(first_record.lon)
             THEN <<Round6(Val(first_record.lon))>> ELSE NA,
         First_Known_Reserve |->
             IF has_first /\ "Reserve Name" \in df.columns
                /\ notna(first_record.reserve)
             THEN first_record.reserve ELSE NA,
         Record_Span_Years |-> last_year - first_year,
         Total_Records |-> species.Total_Records,
         GPS_Locations |-> Len(gps_records),
         All_Reserves_Found |->
             IF Len(unique_reserves) > 0 THEN <<unique_reserves>> ELSE NA,
         Geographic_Range_Lat |->
             IF ranged THEN <<Round6(max_lat - min_lat)>> ELSE NA,
         Geographic_Range_Lon |->
             IF ranged THEN <<Round6(max_lon - min_lon)>> ELSE NA,
         Min_Latitude |-> IF ranged THEN <<min_lat>> ELSE NA,
         Max_Latitude |-> IF ranged THEN <<max_lat>> ELSE NA,
         Min_Longitude |-> IF ranged THEN <<min_lon>> ELSE NA,
         Max_Longitude |-> IF ranged THEN <<max_lon>> ELSE NA]

\* lines 416-508: the rows of the missing-species export
missing_report(df, missing, now) ==
    LET report == [i \in 1..Len(missing) |->
                      missing_report_row(df, missing[i], now)]
    IN  sort_values(report,
                    [i \in 1..Len(report) |-> report[i].Years_Missing], FALSE)

\* all_species_report with the species that have no GPS record left out
all_species_report_gps_only(df, timeline, now) ==
    LET report == [i \in 1..Len(timeline) |->
                      all_species_report_row(df, timeline[i], now)]
        located == Select(report, LAMBDA x : x.GPS_Locations > 0)
    IN  sort_values(located,
                    [i \in 1..Len(located) |-> located[i].Years_Missing], FALSE)

\* lines 530-624: the rows of the full-species export
all_species_report(df, timeline, now) ==
    LET report == [i \in 1..Len(timeline) |->
                      all_species_report_row(df, timeline[i], now)]
    IN  sort_values(report,
                    [i \in 1..Len(report) |-> report[i].Years_Missing], FALSE)

GenerateMissingSpeciesCsv ==
    /\ pc = "generate_missing_species_csv"
    /\ IF Len(Val(missing_species)) = 0
       THEN /\ log' = log \o <<"generate_missing_species_csv",
                  "No missing species found - skipping CSV generation">>
            /\ pc' = "generate_all_species_csv"
            /\ UNCHANGED <<csv_file, result>>
       ELSE IF Faulty("generate_missing_species_csv")
       THEN Raise("generate_missing_species_csv") /\ UNCHANGED csv_file
       ELSE /\ csv_file' =
                   <<missing_report(data, Val(missing_species),
                         current_year("generate_missing_species_csv"))>>
            /\ log' = log \o <<"generate_missing_species_csv">>
            /\ pc' = "generate_all_species_csv"
            /\ UNCHANGED result
    /\ UNCHANGED <<file, env, data, species_timeline, missing_species,
                   survey_coverage, pdf, map_file, all_species_csv>>

\* generate_all_species_csv, then lines 688-696 of run_analysis
GenerateAllSpeciesCsv ==
    /\ pc = "generate_all_species_csv"
    /\ IF Len(Val(species_timeline)) = 0
       THEN /\ log' = log \o <<"generate_all_species_csv",
                  "No species timeline data found - skipping CSV generation",
                  "Analysis complete!">>
            /\ pc' = "done"
            /\ result' = <<TRUE>>
            /\ UNCHANGED all_species_csv
       ELSE IF Faulty("generate_all_species_csv")
       THEN Raise("generate_all_species_csv") /\ UNCHANGED all_species_csv
       ELSE /\ all_species_csv' =
                   <<all_species_report(data, Val(species_timeline),
                         current_year("generate_all_species_csv"))>>
            /\ log' = log \o <<"generate_all_species_csv",
                               "Analysis complete!">>
            /\ pc' = "done"
            /\ result' = <<TRUE>>
    /\ UNCHANGED <<file, env, data, species_timeline, missing_species,
                   survey_coverage, pdf, map_file, csv_file>>

(***************************************************************************)
(* __init__ and the state before run_analysis.                             *)
(***************************************************************************)
Input(f, e) == file = f /\ env = e

Init ==
    /\ \/ \E k \in 0..MaxRows : \E rs \in [1..k -> AggregationRows] :
              Input(CsvFile(OptionalColumns, rs), Quiet)
       \/ \E ny \in ClockReaders \cup {"never"} :
              \E k \in 0..MaxDetailRows : \E rs \in [1..k -> RecencyRows] :
                  Input(CsvFile(OptionalColumns, rs),
                        [faults |-> {}, newyear |-> ny])
       \/ \E k \in 0..MaxDetailRows : \E rs \in [1..k -> GeoRows] :
              Input(CsvFile(OptionalColumns, rs), Quiet)
       \/ \E k \in 0..MaxRows : \E rs \in [1..k -> RangeRows] :
              Input(CsvFile(OptionalColumns, rs), Quiet)
       \/ \E k \in 0..MaxDetailRows : \E rs \in [1..k -> LocationRows] :
              Input(CsvFile(OptionalColumns, rs), Quiet)
       \/ \E cs \in SUBSET {"Year", "Event Date"} :
              LET cols == (OptionalColumns \ {"Year", "Event Date"}) \cup cs
              IN  \E k \in 0..MaxRows :
                      \E rs \in [1..k -> CleaningRows(cols)] :
                          Input(CsvFile(cols, rs), Quiet)
       \/ \E cols \in SUBSET OptionalColumns :
              \E k \in 0..MaxDetailRows : \E rs \in [1..k -> SchemaRows(cols)] :
                  Input(CsvFile(cols, rs), Quiet)
       \/ \E k \in 0..MaxDetailRows : \E rs \in [1..k -> FractionRows] :
              Input(CsvFile(OptionalColumns, rs), Quiet)
       \/ \E k \in 0..MaxDetailRows : \E rs \in [1..k -> CoverageRows] :
              Input(CsvFile(OptionalColumns, rs), Quiet)
       \/ Input(NoFile, Quiet)
       \/ \E fs \in SUBSET FaultPoints :
              \E k \in 0..MaxDetailRows : \E rs \in [1..k -> PlainRows] :
                  Input(CsvFile(OptionalColumns, rs),
                        [faults |-> fs, newyear |-> "never"])
    /\ pc = "load_data"
    /\ data = NA
    /\ species_timeline = NA
    /\ missing_species = NA
    /\ survey_coverage = NA
    /\ pdf = NA
    /\ map_file = NA
    /\ csv_file = NA
    /\ all_species_csv = NA
    /\ log = << >>
    /\ result = NA

Next ==
    \/ LoadData
    \/ AnalyzeSpeciesTimeline
    \/ IdentifyMissingSpecies
    \/ AnalyzeSurveyCoverage
    \/ GeneratePdfReport
    \/ CreateTimelineAnalysisPage
    \/ CreateMissingSpeciesPage
    \/ CreateSpatialCoveragePage
    \/ GenerateInteractiveMap
    \/ GenerateMissingSpeciesCsv
    \/ GenerateAllSpeciesCsv

Spec == Init /\ [][Next]_vars

(***************************************************************************)
(* Properties.                                                             *)
(***************************************************************************)
Logged(entry) == \E i \in 1..Len(log) : log[i] = entry
\* the step ran to its end: its entry is in the log and it did not raise
Completed(step) ==
    \E i \in 1..Len(log) :
        /\ log[i] = step
        /\ ~(i = Len(log) - 1 /\ log[Len(log)] = "Error during analysis")

LoadSucceeded == Completed("load_data")

\* the retained records of one species, and those carrying both coordinates
RecordsOf(name) == {r \in Range(data.rows) : r.name = <<name>>}
GpsBearing(r) == notna(r.lat) /\ notna(r.lon)

\* C1: the missing-species set is a subset of the timeline and holds exactly
\* the timeline rows whose Last_Record is strictly below the cutoff year, each
\* once, for the configured cutoff and for every other cutoff year
C1_MissingExactlyBelowCutoff ==
    notna(missing_species) =>
        LET t == Val(species_timeline)
            m == Val(missing_species)
        IN  /\ Range(m) \subseteq Range(t)
            /\ Range(m) =
                   {r \in Range(t) : r.Last_Record < float(cutoff_year)}
            /\ Cardinality(Range(m)) = Len(m)
            /\ \A r \in Range(t) :
                   r.Last_Record = float(cutoff_year) => r \notin Range(m)
            /\ \A c \in Years :
                   /\ Range(old_only(t, c)) =
                          {r \in Range(t) : r.Last_Record < float(c)}
                   /\ Len(old_only(t, c)) = Cardinality(Range(old_only(t, c)))

\* a species last recorded in the cutoff year beside a missing one
C1_Witness ==
    /\ notna(missing_species)
    /\ Len(Val(missing_species)) > 0
    /\ \E r \in Range(Val(species_timeline)) :
           r.Last_Record = float(cutoff_year)

\* C2 as stated: the two GPS subsets are disjoint and together are the
\* retained records with both latitude and longitude present
C2_PartitionOfLatLonRecords ==
    notna(survey_coverage) =>
        LET h == Range(Val(survey_coverage).historical_gps)
            n == Range(Val(survey_coverage).recent_gps)
        IN  /\ h \cap n = {}
            /\ h \cup n = {r \in Range(data.rows) : GpsBearing(r)}

\* C2, amended: the two GPS subsets are disjoint, split gps_data at the
\* cutoff, and together are the retained records with latitude, longitude
\* and scientific name all present; the same for every other cutoff year
C2_PartitionOfNamedGpsRecords ==
    notna(survey_coverage) =>
        LET cov == Val(survey_coverage)
            named == {r \in Range(data.rows) : GpsBearing(r) /\ notna(r.name)}
        IN  /\ Range(cov.gps_data) = named
            /\ Range(cov.historical_gps) =
                   {r \in named : Val(r.year) < float(historical_cutoff)}
            /\ Range(cov.recent_gps) =
                   {r \in named : Val(r.year) >= float(historical_cutoff)}
            /\ \A c \in Years :
                   LET h == Range(historical_gps(cov.gps_data, c))
                       n == Range(recent_gps(cov.gps_data, c))
                   IN  h \cap n = {} /\ h \cup n = named

\* both subsets inhabited
C2_Witness ==
    /\ notna(survey_coverage)
    /\ Len(Val(survey_coverage).historical_gps) > 0
    /\ Len(Val(survey_coverage).recent_gps) > 0

\* C3: the timeline has one row per distinct scientific name of the retained
\* records; its first and last years are the least and greatest year of the
\* species' records, Total_Records their number, Time_Span = last - first,
\* Recent_Records = (last >= current year - recent_years), Missing_Years =
\* current year - last; records (SpA,1990),(SpA,1995),(SpB,2023) give
\* SpA{1990,1995,5,2} and SpB{2023,2023,0,1}
C3_TimelineRows ==
    notna(species_timeline) =>
        LET t == Val(species_timeline)
            now == current_year("analyze_species_timeline")
        IN  /\ {t[i].Scientific_Name : i \in 1..Len(t)} =
                   {Val(r.name) : r \in {x \in Range(data.rows) : notna(x.name)}}
            /\ \A i, j \in 1..Len(t) :
                   t[i].Scientific_Name = t[j].Scientific_Name => i = j
            /\ \A i \in 1..Len(t) :
                   LET recs == RecordsOf(t[i].Scientific_Name)
                   IN  /\ \E r \in recs : Val(r.year) = t[i].First_Record
                       /\ \E r \in recs : Val(r.year) = t[i].Last_Record
                       /\ \A r \in recs : /\ t[i].First_Record <= Val(r.year)
                                          /\ Val(r.year) <= t[i].Last_Record
                       /\ t[i].Total_Records = Cardinality(recs)
                       /\ t[i].Time_Span = t[i].Last_Record - t[i].First_Record
                       /\ t[i].Recent_Records =
                              (t[i].Last_Record >= float(now - recent_years))
                       /\ t[i].Missing_Years = float(now) - t[i].Last_Record
            /\ (/\ Len(file.rows) = 3
                /\ [i \in 1..3 |-> <<file.rows[i].name, file.rows[i].year>>] =
                       << <<<<1>>, <<"num", 1990>>>>, <<<<1>>, <<"num", 1995>>>>,
                          <<<<2>>, <<"num", 2023>>>> >>)
               => /\ Len(t) = 2
                  /\ t[1].First_Record = float(1990)
                  /\ t[1].Last_Record = float(1995)
                  /\ t[1].Time_Span = float(5) /\ t[1].Total_Records = 2
                  /\ t[2].First_Record = float(2023)
                  /\ t[2].Last_Record = float(2023)
                  /\ t[2].Time_Span = float(0) /\ t[2].Total_Records = 1

\* the timeline of the example
C3_Witness ==
    /\ notna(species_timeline)
    /\ Len(file.rows) = 3
    /\ [i \in 1..3 |-> <<file.rows[i].name, file.rows[i].year>>] =
           << <<<<1>>, <<"num", 1990>>>>, <<<<1>>, <<"num", 1995>>>>,
              <<<<2>>, <<"num", 2023>>>> >>
    /\ Len(Val(species_timeline)) = 2

\* C4: once the timeline is computed every row has First_Record <=
\* Last_Record and Time_Span >= 0, and Missing_Years >= 0 whenever
\* Last_Record is not after the current year
C4_TimelineOrdered ==
    notna(species_timeline) =>
        \A r \in Range(Val(species_timeline)) :
            /\ r.First_Record <= r.Last_Record
            /\ r.Time_Span >= 0
            /\ r.Last_Record <=
                   float(current_year("analyze_species_timeline"))
                   => r.Missing_Years >= 0

\* a species recorded over several years beside one recorded after the
\* current year
C4_Witness ==
    /\ notna(species_timeline)
    /\ \E r \in Range(Val(species_timeline)) : r.Time_Span > 0
    /\ \E r \in Range(Val(species_timeline)) :
           /\ r.Last_Record >
                  float(current_year("analyze_species_timeline"))
           /\ r.Missing_Years < 0

\* the rows of the exports that were written
ExportRows ==
    (IF notna(csv_file) THEN Range(Val(csv_file)) ELSE {})
    \cup (IF notna(all_species_csv) THEN Range(Val(all_species_csv)) ELSE {})

GpsCount(name) == Cardinality({r \in RecordsOf(name) : GpsBearing(r)})

RangeFields(x) ==
    {x.Min_Latitude, x.Max_Latitude, x.Min_Longitude, x.Max_Longitude,
     x.Geographic_Range_Lat, x.Geographic_Range_Lon}

KnownCoordinates(x) ==
    {x.Last_Known_Latitude, x.Last_Known_Longitude, x.First_Known_Latitude,
     x.First_Known_Longitude}

\* every species of the timeline with property P has a row in the full
\* export, and in the missing export when it is missing, once written
HaveRows(P(_)) ==
    /\ notna(all_species_csv) =>
           \A t \in Range(Val(species_timeline)) :
               P(t.Scientific_Name) =>
                   \E x \in Range(Val(all_species_csv)) :
                       x.Scientific_Name = t.Scientific_Name
    /\ notna(csv_file) =>
           \A t \in Range(Val(missing_species)) :
               P(t.Scientific_Name) =>
                   \E x \in Range(Val(csv_file)) :
                       x.Scientific_Name = t.Scientific_Name

NoCoordinate(name) ==
    \A r \in RecordsOf(name) : isna(r.lat) /\ isna(r.lon)

NoOutput ==
    pdf = NA /\ map_file = NA /\ csv_file = NA /\ all_species_csv = NA

Aborted == result = <<FALSE>> /\ NoOutput

NoRowsRemain == file.exists /\ notna(data) /\ Len(data.rows) = 0

\* C6 as stated: the run is aborted by the Loader, with no report, map or
\* export, when the input path does not exist and when no rows remain after
\* cleaning
C6_AbortsOnMissingFileOrNoRows ==
    pc = "done" /\ (~file.exists \/ NoRowsRemain) => Aborted

\* C6, amended: the run is aborted by the Loader, with no report, map or
\* export, when the input path does not exist; when the file has every
\* column and no rows remain after cleaning, load_data does not fail and the
\* run completes with the report and the map written and both exports skipped
C6_AbortsOnMissingFile ==
    /\ pc = "done" /\ ~file.exists =>
           Aborted /\ log = <<"load_data", "Error during analysis">>
    /\ (/\ pc = "done" /\ NoRowsRemain /\ env.faults = {}
        /\ OptionalColumns \subseteq file.columns)
           => /\ result = <<TRUE>>
              /\ notna(pdf) /\ notna(map_file)
              /\ csv_file = NA /\ all_species_csv = NA

\* the run on a missing path, ended
C6_Witness == pc = "done" /\ ~file.exists /\ result = <<FALSE>>

\* the year of a source row as C7 defines it: the Year cell when present and
\* non-null, otherwise the year of the Event Date; NA when it is no number
DeterminedYear(raw) ==
    IF notna(raw.year)
    THEN (IF raw.year[1] = "num"
          THEN <<float(raw.year[2]) + (IF Len(raw.year) = 3 THEN 1 ELSE 0)>>
          ELSE NA)
    ELSE IF notna(raw.date) /\ raw.date[1] = "date"
    THEN <<float(raw.date[2])>>
    ELSE NA

\* the rows of self.data are the source rows with a year, in source order
RetainedRows ==
    /\ {data.rows[i].idx : i \in 1..Len(data.rows)} =
           {i \in 1..Len(file.rows) : notna(DeterminedYear(file.rows[i]))}
    /\ \A i \in 1..Len(data.rows) :
           /\ notna(data.rows[i].year)
           /\ data.rows[i].year = DeterminedYear(file.rows[data.rows[i].idx])
           /\ data.rows[i].name = file.rows[data.rows[i].idx].name
    /\ \A i, j \in 1..Len(data.rows) :
           i < j => data.rows[i].idx < data.rows[j].idx

\* C7 as stated: after load_data a source row is retained iff it has a year,
\* every retained row has a scientific name and a year, source order kept
C7_RetainedRowsNamed ==
    LoadSucceeded =>
        /\ RetainedRows
        /\ \A i \in 1..Len(data.rows) : notna(data.rows[i].name)

\* C7, amended: after load_data a source row is retained iff it has a year
\* (the Year cell when present and non-null, otherwise the year of the Event
\* Date); every retained row has that year, whether or not it has a
\* scientific name, and retained rows keep their source order
C7_RetainedRows == LoadSucceeded => RetainedRows

\* a load that dropped a row, kept a nameless row, and kept a row whose
\* year comes from its Event Date after another kept row
C7_Witness ==
    /\ LoadSucceeded
    /\ Len(data.rows) = 2 /\ Len(file.rows) = 3
    /\ \E i \in 1..2 : isna(data.rows[i].name)
    /\ isna(file.rows[data.rows[2].idx].year)

\* C8: with an optional column (Event Date, Decimal Latitude, Decimal
\* Longitude, Reserve Name) absent from a file that has a Year column and
\* rows, the run completes, and the timeline, the missing-species selection
\* and the full-species export are produced for every named row with a year
C8_AbsentColumnsDegrade ==
    (/\ pc = "done" /\ file.exists /\ env.faults = {}
     /\ "Year" \in file.columns /\ Len(file.rows) > 0
     /\ ~(OptionalColumns \subseteq file.columns))
        => /\ result = <<TRUE>>
           /\ notna(species_timeline) /\ notna(missing_species)
           /\ \A i \in 1..Len(file.rows) :
                  notna(file.rows[i].name) /\ notna(DeterminedYear(file.rows[i]))
                      => /\ notna(all_species_csv)
                         /\ \E x \in Range(Val(all_species_csv)) :
                                <<x.Scientific_Name>> = file.rows[i].name

MissingPages ==
    {"Distribution of Last Record Years (Missing Species)",
     "No Missing Species Found"}

\* C10: with an empty missing-species set generate_missing_species_csv
\* writes no file and returns None, the missing-species page is the
\* placeholder "No Missing Species Found", and the run completes unless the
\* environment fails a later step; with a non-empty set the file is written,
\* one row per missing species, and the page is the one with the histograms
C10_EmptyMissingSet ==
    notna(missing_species) =>
        LET empty == Len(Val(missing_species)) = 0
        IN  /\ empty => csv_file = NA
            /\ empty /\ Completed("generate_missing_species_csv") =>
                   Logged("No missing species found - skipping CSV generation")
            /\ ~empty /\ Completed("generate_missing_species_csv") =>
                   /\ notna(csv_file)
                   /\ Len(Val(csv_file)) = Len(Val(missing_species))
            /\ Logged("Missing species page") =>
                   \E i \in 1..Len(Val(pdf)) :
                       /\ Val(pdf)[i].page \in MissingPages
                       /\ Val(pdf)[i].page = "No Missing Species Found"
                              <=> empty
            /\ notna(pdf) =>
                   \A i \in 1..Len(Val(pdf)) :
                       Val(pdf)[i].page \in MissingPages =>
                           (Val(pdf)[i].page = "No Missing Species Found"
                                <=> empty)
            /\ (/\ empty /\ pc = "done"
                /\ env.faults \cap {"generate_pdf_report",
                       "generate_interactive_map",
                       "generate_all_species_csv"} = {})
                   => result = <<TRUE>>

\* a completed run over retained records, none of them missing: placeholder
\* page in the report, no missing-species file, the full export written
C10_Witness ==
    /\ pc = "done" /\ result = <<TRUE>>
    /\ notna(missing_species) /\ Len(Val(missing_species)) = 0
    /\ csv_file = NA /\ notna(all_species_csv)
    /\ \E i \in 1..Len(Val(pdf)) : Val(pdf)[i].page = "No Missing Species Found"

NamesOf(rows) == {rows[i].Scientific_Name : i \in 1..Len(rows)}

\* C11: the full-species export has exactly one row per species of the
\* timeline, labelled "Missing" if and only if its last record year is
\* below the cutoff year and "Recent" otherwise; the missing-species export
\* has exactly one row per species of the missing set; the species labelled
\* "Missing" in the full export are the species of the missing set, which
\* are the species of the missing-species export when that one is written
C11_ExportPopulations ==
    /\ notna(all_species_csv) =>
           LET all == Val(all_species_csv)
               t == Val(species_timeline)
               labelled == {all[i].Scientific_Name :
                               i \in {j \in 1..Len(all) :
                                         all[j].Missing_Status = "Missing"}}
           IN  /\ Len(all) = Len(t)
               /\ NamesOf(all) = NamesOf(t)
               /\ Cardinality(NamesOf(all)) = Len(all)
               /\ \A i \in 1..Len(all) :
                      /\ all[i].Missing_Status \in {"Missing", "Recent"}
                      /\ all[i].Missing_Status = "Missing" <=>
                             all[i].Last_Record_Year < cutoff_year
                      /\ \E r \in Range(t) :
                             /\ r.Scientific_Name = all[i].Scientific_Name
                             /\ int(r.Last_Record) = all[i].Last_Record_Year
               /\ labelled = NamesOf(Val(missing_species))
               /\ notna(csv_file) => labelled = NamesOf(Val(csv_file))
               /\ csv_file = NA => labelled = {}
    /\ notna(csv_file) =>
           LET m == Val(csv_file)
           IN  /\ Len(m) = Len(Val(missing_species))
               /\ NamesOf(m) = NamesOf(Val(missing_species))
               /\ Cardinality(NamesOf(m)) = Len(m)

\* both exports written: a missing species, and a species last recorded in
\* the cutoff year that is labelled "Recent"
C11_Witness ==
    /\ notna(all_species_csv) /\ notna(csv_file)
    /\ Len(Val(csv_file)) = 1
    /\ \E x \in Range(Val(all_species_csv)) :
           x.Last_Record_Year = cutoff_year /\ x.Missing_Status = "Recent"
    /\ \E x \in Range(Val(all_species_csv)) : x.Missing_Status = "Missing"

\* the rows of an export in descending order of Years_Missing, each value
\* being the current year read by that exporter less the last record year
SortedByYearsMissing(rows, now) ==
    /\ \A i \in 1..Len(rows) :
           rows[i].Years_Missing = now - rows[i].Last_Record_Year
    /\ \A i \in 1..(Len(rows) - 1) :
           rows[i].Years_Missing >= rows[i + 1].Years_Missing

\* C12: the rows of the missing-species export and of the full-species
\* export are in descending order of years missing (current year less last
\* record year), and the missing set kept in memory is in ascending order of
\* last record year
C12_ExportOrder ==
    /\ notna(csv_file) =>
           SortedByYearsMissing(Val(csv_file),
               current_year("generate_missing_species_csv"))
    /\ notna(all_species_csv) =>
           SortedByYearsMissing(Val(all_species_csv),
               current_year("generate_all_species_csv"))
    /\ notna(missing_species) =>
           \A i \in 1..(Len(Val(missing_species)) - 1) :
               Val(missing_species)[i].Last_Record <=
                   Val(missing_species)[i + 1].Last_Record

\* both exports written where the sort had to move rows: the timeline lists
\* the species of the later last year first, the missing set and both
\* exports list it last
C12_Witness ==
    /\ notna(csv_file) /\ notna(all_species_csv)
    /\ Len(Val(csv_file)) = 2
    /\ Val(species_timeline)[1].Last_Record >
           Val(species_timeline)[2].Last_Record
    /\ Val(missing_species)[1].Scientific_Name =
           Val(species_timeline)[2].Scientific_Name
    /\ Val(csv_file)[1].Years_Missing > Val(csv_file)[2].Years_Missing
    /\ Val(all_species_csv)[1].Years_Missing >
           Val(all_species_csv)[2].Years_Missing

\* the two exports of a run of the pipeline on file f in which every
\* reading of the clock gives the year now
Exports(f, now) ==
    LET df == preprocess_dates(read_csv(f))
        timeline == species_years(df.rows, now)
        missing == old_only(timeline, cutoff_year)
    IN  [csv_file |->
             IF Len(missing) = 0 THEN NA
             ELSE <<missing_report(df, missing, now)>>,
         all_species_csv |->
             IF Len(timeline) = 0 THEN NA
             ELSE <<all_species_report(df, timeline, now)>>]

SameYearThroughout == env.newyear = "never"

PageBuilders ==
    {"create_timeline_analysis_page", "create_missing_species_page",
     "create_spatial_coverage_page"}

\* the page builder raises in this run
PageFails(step) ==
    \/ step \in env.faults
    \/ step = "create_spatial_coverage_page"
           /\ spatial_page_raises(Val(survey_coverage))

\* what generate_pdf_report prints after the attempt of a page
PageOutcome(step) ==
    CASE step = "create_timeline_analysis_page" ->
             IF PageFails(step) THEN "Skipped timeline page"
             ELSE "Timeline analysis page"
      [] step = "create_missing_species_page" ->
             IF PageFails(step) THEN "Skipped missing species page"
             ELSE "Missing species page"
      [] step = "create_spatial_coverage_page" ->
             IF PageFails(step) THEN "Skipped spatial coverage page"
             ELSE "Spatial coverage page"

PageKinds(p) ==
    CASE p.page = "timeline" -> "create_timeline_analysis_page"
      [] p.page \in MissingPages -> "create_missing_species_page"
      [] p.page = "spatial" -> "create_spatial_coverage_page"

PdfOpened == Len(log) >= 6 /\ log[5] = "generate_pdf_report"
                /\ log[6] # "Error during analysis"

\* C14: once the report is opened, whatever subset of the three page
\* builders fails, the pages are attempted in the order timeline, missing
\* species, spatial, each failing one is skipped and each other one is in
\* the report, no failure of a page ends the run, and the run goes on to
\* the map and, when the map is written, to the missing-species export
C14_PagesSkippedIndependently ==
    PdfOpened =>
        /\ Len(log) >= 7 =>
               /\ log[6] = "create_timeline_analysis_page"
               /\ log[7] = PageOutcome("create_timeline_analysis_page")
        /\ Len(log) >= 9 =>
               /\ log[8] = "create_missing_species_page"
               /\ log[9] = PageOutcome("create_missing_species_page")
        /\ Len(log) >= 11 =>
               /\ log[10] = "create_spatial_coverage_page"
               /\ log[11] = PageOutcome("create_spatial_coverage_page")
               /\ {PageKinds(Val(pdf)[i]) : i \in 1..Len(Val(pdf))} =
                      {b \in PageBuilders : ~PageFails(b)}
               /\ Len(Val(pdf)) =
                      Cardinality({b \in PageBuilders : ~PageFails(b)})
               /\ \A i, j \in 1..Len(Val(pdf)) :
                      i < j => StageIndex(PageKinds(Val(pdf)[i])) <
                                   StageIndex(PageKinds(Val(pdf)[j]))
        /\ pc = "done" =>
               /\ Len(log) >= 12 /\ log[12] = "generate_interactive_map"
               /\ Completed("generate_interactive_map") =>
                      notna(map_file) /\ Logged("generate_missing_species_csv")
               /\ env.faults \subseteq PageBuilders => result = <<TRUE>>

\* a completed run in which the timeline page and the spatial page failed:
\* the report holds the missing-species page alone, map and export written
C14_Witness ==
    /\ pc = "done" /\ result = <<TRUE>>
    /\ env.faults = {"create_timeline_analysis_page",
                     "create_spatial_coverage_page"}
    /\ notna(pdf) /\ Len(Val(pdf)) = 1
    /\ Val(pdf)[1].page \in MissingPages
    /\ notna(map_file) /\ notna(all_species_csv)

\* the location fields a record gives: coordinates rounded, reserve, date,
\* each null when the record lacks it
LocationOf(r) ==
    [lat |-> IF notna(r.lat) THEN <<Round6(Val(r.lat))>> ELSE NA,
     lon |-> IF notna(r.lon) THEN <<Round6(Val(r.lon))>> ELSE NA,
     reserve |-> r.reserve,
     date |-> IF notna(r.date) THEN <<date_str(Val(r.date))>> ELSE NA]

LastKnown(x) ==
    [lat |-> x.Last_Known_Latitude, lon |-> x.Last_Known_Longitude,
     reserve |-> x.Last_Known_Reserve, date |-> x.Last_Record_Date]

FirstKnown(x) ==
    [lat |-> x.First_Known_Latitude, lon |-> x.First_Known_Longitude,
     reserve |-> x.First_Known_Reserve, date |-> x.First_Record_Date]

TimelineRowOf(name) ==
    CHOOSE t \in Range(Val(species_timeline)) : t.Scientific_Name = name

\* the species' records of one year of the Year column
RecordsOfYear(name, y) == {r \in RecordsOf(name) : r.year = <<y>>}

\* the first in source order
FirstInOrder(recs) == CHOOSE r \in recs : \A q \in recs : r.idx <= q.idx

\* the last-known fields of export row x are those of the first record of
\* the species' last year
LastFromRecords(x) ==
    LET t == TimelineRowOf(x.Scientific_Name)
        last == RecordsOfYear(x.Scientific_Name, t.Last_Record)
    IN  last # {} /\ LastKnown(x) = LocationOf(FirstInOrder(last))

\* the first-known fields of export row x are those of the first record of
\* the species' first year
FirstFromRecords(x) ==
    LET t == TimelineRowOf(x.Scientific_Name)
        first == RecordsOfYear(x.Scientific_Name, t.First_Record)
    IN  first # {} /\ FirstKnown(x) = LocationOf(FirstInOrder(first))

\* C15: in every row of either export the last-known coordinates, reserve
\* and date are those of the first record in source order among the species'
\* records of its last record year, the first-known ones those of the first
\* record of its first record year, each null when that record lacks it;
\* such records exist for every species
C15_LocationOfFirstRecordOfYear ==
    \A x \in ExportRows : LastFromRecords(x) /\ FirstFromRecords(x)

Whole(y) == y % YearUnit = 0

\* C15 where the years are whole numbers: it holds of the last-known fields
\* of every species whose last record year is whole, and of the first-known
\* fields of every species whose first record year is whole
C15_LocationOfWholeYears ==
    \A x \in ExportRows :
        LET t == TimelineRowOf(x.Scientific_Name)
        IN  /\ Whole(t.Last_Record) => LastFromRecords(x)
            /\ Whole(t.First_Record) => FirstFromRecords(x)

\* the retained records of one year of the Year column
RecordsIn(y) == {r \in Range(data.rows) : r.year = <<y>>}

RECURSIVE SumOf(_, _)
\* the sum of Total_Records over the first n rows
SumOf(rows, n) ==
    IF n = 0 THEN 0 ELSE rows[n].Total_Records + SumOf(rows, n - 1)

\* one row per distinct year of the retained records, years ascending
OneRowPerYear(yr) ==
    /\ {yr[i].Year : i \in 1..Len(yr)} =
           {Val(r.year) : r \in Range(data.rows)}
    /\ \A i, j \in 1..Len(yr) : i < j => yr[i].Year < yr[j].Year

\* C16 as stated: one coverage row per distinct year; its total is the
\* number of retained records of the year, its species count the number of
\* distinct species of the year, its GPS count the number of the year's
\* records with both coordinates; the totals sum to the retained records
C16_YearlyCoverageOfAllRecords ==
    notna(survey_coverage) =>
        LET yr == Val(survey_coverage).yearly_records
        IN  /\ OneRowPerYear(yr)
            /\ \A i \in 1..Len(yr) :
                   LET recs == RecordsIn(yr[i].Year)
                       both == Cardinality({r \in recs : GpsBearing(r)})
                   IN  /\ yr[i].Total_Records = Cardinality(recs)
                       /\ yr[i].Unique_Species = Cardinality(
                              {r.name : r \in {x \in recs : notna(x.name)}})
                       /\ yr[i].GPS_Records_Lat = both
                       /\ yr[i].GPS_Records_Lon = both
            /\ SumOf(yr, Len(yr)) = Len(data.rows)

\* C16, amended: one coverage row per distinct year; its total is the number
\* of the year's retained records that have a scientific name, its species
\* count the number of distinct species of the year, and it has two GPS
\* counts, of the year's records with a latitude and of those with a
\* longitude; the totals sum to the retained records that have a name
C16_YearlyCoverageOfNamedRecords ==
    notna(survey_coverage) =>
        LET yr == Val(survey_coverage).yearly_records
        IN  /\ OneRowPerYear(yr)
            /\ \A i \in 1..Len(yr) :
                   LET recs == RecordsIn(yr[i].Year)
                   IN  /\ yr[i].Total_Records =
                              Cardinality({r \in recs : notna(r.name)})
                       /\ yr[i].Unique_Species = Cardinality(
                              {r.name : r \in {x \in recs : notna(x.name)}})
                       /\ yr[i].GPS_Records_Lat =
                              Cardinality({r \in recs : notna(r.lat)})
                       /\ yr[i].GPS_Records_Lon =
                              Cardinality({r \in recs : notna(r.lon)})
            /\ SumOf(yr, Len(yr)) =
                   Cardinality({r \in Range(data.rows) : notna(r.name)})

\* a year with a nameless record beside a named one and with a record that
\* has a latitude alone: the total is below the year's records and the two
\* GPS counts differ
C16_Witness ==
    /\ notna(survey_coverage)
    /\ \E i \in 1..Len(Val(survey_coverage).yearly_records) :
           LET y == Val(survey_coverage).yearly_records[i]
           IN  /\ y.Total_Records = 1
               /\ Cardinality(RecordsIn(y.Year)) = 2
               /\ y.GPS_Records_Lat > y.GPS_Records_Lon

\* the species with a record of a year up to y
SpeciesUpTo(y) ==
    {Val(r.name) :
        r \in {x \in Range(data.rows) : notna(x.name) /\ Val(x.year) <= y}}

\* the cumulative sequence of timeline page p against the coverage years
CumulativeOfCoverage(p) ==
    LET yr == Val(survey_coverage).yearly_records
        cum == p.cumulative_species
    IN  /\ Len(cum) = Len(yr) /\ Len(p.years_sorted) = Len(yr)
        /\ \A i \in 1..Len(yr) :
               /\ float(p.years_sorted[i]) = yr[i].Year
               /\ cum[i] = Cardinality(SpeciesUpTo(yr[i].Year))
        /\ \A i \in 1..(Len(yr) - 1) :
               /\ p.years_sorted[i] < p.years_sorted[i + 1]
               /\ cum[i] <= cum[i + 1]
        /\ Len(yr) > 0 =>
               cum[Len(cum)] = Cardinality(
                   {Val(r.name) : r \in {x \in Range(data.rows) : notna(x.name)}})

TimelinePages ==
    IF notna(pdf)
    THEN {Val(pdf)[i] : i \in {j \in 1..Len(Val(pdf)) :
                                  Val(pdf)[j].page = "timeline"}}
    ELSE {}

\* C17: the cumulative-species sequence of the timeline chart has one entry
\* per coverage year, years ascending; the entry of year y is the number of
\* distinct species with a record of a year up to y, so the sequence never
\* decreases and ends at the number of distinct species of the data
C17_CumulativeSpecies == \A p \in TimelinePages : CumulativeOfCoverage(p)

\* C17 where every retained record has a whole-number year
C17_CumulativeOfWholeYears ==
    \A p \in TimelinePages :
        (\A r \in Range(data.rows) : Whole(Val(r.year))) =>
            CumulativeOfCoverage(p)

\* the stages of run_analysis: the steps less the three page builders
RunStages ==
    Filter(Stages,
           [i \in 1..Len(Stages) |-> Stages[i] \notin PageBuilders])

\* the stages the run has entered, in the order it entered them
StagesEntered ==
    Filter(log, [i \in 1..Len(log) |-> log[i] \in Range(RunStages)])

Failed == Logged("Error during analysis")

\* what a stage writes: the variable is null until the stage has written
OutputOf(stage) ==
    CASE stage = "load_data" -> data
      [] stage = "analyze_species_timeline" -> species_timeline
      [] stage = "identify_missing_species" -> missing_species
      [] stage = "analyze_survey_coverage" -> survey_coverage
      [] stage = "generate_pdf_report" -> pdf
      [] stage = "generate_interactive_map" -> map_file
      [] stage = "generate_missing_species_csv" -> csv_file
      [] stage = "generate_all_species_csv" -> all_species_csv

\* C18: the stages are entered in the order load, timeline, selection,
\* coverage, report, map, missing-species export, full-species export; when
\* a stage other than a page builder raises, it is the last stage entered,
\* the run ends reporting failure and nothing of a later stage is written;
\* the run reports success only when all eight stages completed
C18_StagesInOrderOrAbort ==
    /\ StagesEntered = SubSeq(RunStages, 1, Len(StagesEntered))
    /\ Failed =>
           /\ log[Len(log)] = "Error during analysis"
           /\ log[Len(log) - 1] = StagesEntered[Len(StagesEntered)]
           /\ pc = "done" /\ result = <<FALSE>>
           /\ \A i \in 1..Len(RunStages) :
                  i > Len(StagesEntered) => OutputOf(RunStages[i]) = NA
    /\ (pc = "done") = (result # NA)
    /\ result = <<TRUE>> =>
           /\ ~Failed
           /\ StagesEntered = RunStages
           /\ \A i \in 1..Len(RunStages) : Completed(RunStages[i])
    /\ result = <<FALSE>> => Failed

\* a run whose map stage raised after the report was written: it ended
\* reporting failure with neither export written
C18_Witness ==
    /\ pc = "done" /\ result = <<FALSE>>
    /\ notna(pdf) /\ Len(Val(pdf)) > 0
    /\ log[Len(log) - 1] = "generate_interactive_map"
    /\ map_file = NA /\ csv_file = NA /\ all_species_csv = NA

\* the enrichment fields of an export row: the row less the status label
Enrichment(x) ==
    [f \in DOMAIN x \ {"Missing_Status"} |-> x[f]]

\* the row of a species in the full-species export
FullRowOf(name) ==
    CHOOSE x \in Range(Val(all_species_csv)) : x.Scientific_Name = name

\* C19: every row of the missing-species export has the same enrichment
\* fields (years missing, last and first year, date, coordinates, reserve,
\* record span, total records, GPS count, reserve list, the six range
\* fields) as the row of the same species in the full-species export
C19_SameEnrichment ==
    notna(csv_file) /\ notna(all_species_csv) =>
        \A x \in Range(Val(csv_file)) :
            Enrichment(FullRowOf(x.Scientific_Name)) = x

\* C19 apart from the clock: the two rows agree on every enrichment field
\* other than Years_Missing, and on Years_Missing too when the two exporters
\* read the same year
C19_SameEnrichmentInOneYear ==
    notna(csv_file) /\ notna(all_species_csv) =>
        \A x \in Range(Val(csv_file)) :
            LET y == Enrichment(FullRowOf(x.Scientific_Name))
            IN  /\ [y EXCEPT !.Years_Missing = x.Years_Missing] = x
                /\ current_year("generate_missing_species_csv") =
                       current_year("generate_all_species_csv") => y = x

====
